---- MODULE Spec2Model ----
(***************************************************************************)
(* Model of modules/video_queue.py: the VideoJobQueue job table, its       *)
(* admission queue, the single worker thread (_worker_loop), the callers   *)
(* of add_job / cancel_job / update_job_progress / set_worker_function,    *)
(* and the per-job AsyncStream with the worker routine that writes to it.  *)
(*                                                                         *)
(* Every action is one critical section of the code (a `with self.lock`    *)
(* block) or one lock-free statement group between two of them.            *)
(***************************************************************************)
EXTENDS Integers, Sequences, FiniteSets, TLC

\* ---------------------------------------------------------------- bounds
MaxJobs == 2        \* number of add_job calls (one caller thread per job)
MaxOut  == 1        \* events that may wait in one stream's output queue

JobIds == 1..MaxJobs

\* ------------------------------------------------------------ JobStatus
PENDING   == "pending"
RUNNING   == "running"
COMPLETED == "completed"
FAILED    == "failed"
CANCELLED == "cancelled"
ABSENT    == "absent"      \* jobs.get(job_id) is None: id not in self.jobs

JobStatus == {PENDING, RUNNING, COMPLETED, FAILED, CANCELLED}
Terminal  == {COMPLETED, FAILED, CANCELLED}

None == "None"
Set  == "set"               \* a timestamp returned by time.time()
NoJob == 0                  \* self.current_job = None

\* error strings the loop writes
ErrStart       == "str(e)"
ErrInterrupted == "Job processing was interrupted"
ErrLoop        == "Worker loop error"

\* payloads of ('file', data) events
Files == {"out1", "out2"}
\* events on a stream's output side
Events == {<<"progress">>, <<"end">>} \cup {<<"file", f>> : f \in Files}

\* a record of serialize_job: the values read from job.status, job.started_at,
\* job.completed_at, job.error and job.result, in the order of lines 127-132;
\* the other keys of the record are never written after Job(...) and are not
\* carried
Fields == <<"status", "started_at", "completed_at", "error", "result">>

\* a field of a record that serialize_job has not read yet
Unread == "?"

\* serialized_jobs = {} (line 217): no id has a record
Missing   == <<>>
NoRecords == [i \in JobIds |-> Missing]

VARIABLES
    status,          \* job.status per id, ABSENT while not in self.jobs
    created_at,      \* job.created_at (0 before the Job is constructed)
    started_at,      \* job.started_at: None or Set
    completed_at,    \* job.completed_at: None or Set
    error,           \* job.error
    result,          \* job.result
    queue,           \* self.queue (FIFO of job ids)
    current_job,     \* self.current_job: NoJob or a job id
    is_processing,   \* self.is_processing
    worker_function, \* self.worker_function: None or Set
    pc,              \* position of the worker thread in _worker_loop
    job_id,          \* _worker_loop local job_id (NoJob before the first get)
    job_completed,   \* _worker_loop local job_completed
    input_queue,     \* job.stream.input_queue: number of 'end' signals pushed
    output_queue,    \* job.stream.output_queue of the job the loop drains
    routine,         \* the worker routine started for the job by async_run
    addpc,           \* position of the add_job caller of each job
    now,             \* last value returned by time.time() to add_job (0: none)
    cancel_ret,      \* return value of the last cancel_job call
    jobs_keys,       \* list(self.jobs.keys()): the ids in insertion order
    job_ids,         \* save_queue_to_json local job_ids, per add_job caller
    serialized_jobs, \* save_queue_to_json local serialized_jobs, per caller
    queue_json       \* the file queue.json: the ids that have a record in it

vars == <<status, created_at, started_at, completed_at, error, result,
          queue, current_job, is_processing, worker_function,
          pc, job_id, job_completed, input_queue, output_queue, routine,
          addpc, now, cancel_ret,
          jobs_keys, job_ids, serialized_jobs, queue_json>>

\* the state of the snapshot writers; it changes only in SpecSave, the
\* specification that carries save_queue_to_json
saveVars   == <<jobs_keys, job_ids, serialized_jobs, queue_json>>
jobVars    == <<status, created_at, started_at, completed_at, error, result>>
loopVars   == <<pc, job_id, job_completed>>
streamVars == <<input_queue, output_queue, routine>>

\* ------------------------------------------------------------------ Init
\* VideoJobQueue.__init__
Init ==
    /\ status = [j \in JobIds |-> ABSENT]
    /\ created_at = [j \in JobIds |-> 0]
    /\ started_at = [j \in JobIds |-> None]
    /\ completed_at = [j \in JobIds |-> None]
    /\ error = [j \in JobIds |-> None]
    /\ result = [j \in JobIds |-> None]
    /\ queue = <<>>
    /\ current_job = NoJob
    /\ is_processing = FALSE
    /\ worker_function = None
    /\ pc = "get"
    /\ job_id = NoJob
    /\ job_completed = FALSE
    /\ input_queue = [j \in JobIds |-> 0]
    /\ output_queue = <<>>
    /\ routine = [j \in JobIds |-> "idle"]
    /\ addpc = [j \in JobIds |-> "idle"]
    /\ now = 0
    /\ cancel_ret = None
    /\ jobs_keys = <<>>
    /\ job_ids = [j \in JobIds |-> <<>>]
    /\ serialized_jobs = [j \in JobIds |-> NoRecords]
    /\ queue_json = {}

\* --------------------------------------------------------------- callers
\* set_worker_function
set_worker_function ==
    /\ worker_function = None
    /\ worker_function' = Set
    /\ UNCHANGED <<jobVars, queue, current_job, is_processing, loopVars,
                   streamVars, addpc, now, cancel_ret>>
    /\ UNCHANGED saveVars

\* add_job, lines 233-241: Job(...) constructed, created_at = time.time();
\* two successive readings of the clock may be equal (only the order of the
\* readings matters: the first one is 1).  Ids are fresh uuids: the k-th
\* constructed Job is given id k.
add_job_create(j) ==
    /\ addpc[j] = "idle"
    /\ \A i \in JobIds : i < j => addpc[i] # "idle"
    /\ \E t \in (IF now = 0 THEN {1} ELSE {now, now + 1}) :
          /\ now' = t
          /\ created_at' = [created_at EXCEPT ![j] = t]
    /\ addpc' = [addpc EXCEPT ![j] = "created"]
    /\ UNCHANGED <<status, started_at, completed_at, error, result,
                   queue, current_job, is_processing, worker_function, loopVars,
                   streamVars, cancel_ret>>
    /\ UNCHANGED saveVars

\* add_job that puts the id into the queue twice
add_job_insert_twice(j) ==
    /\ addpc[j] = "created"
    /\ status' = [status EXCEPT ![j] = PENDING]
    /\ queue' = Append(Append(queue, j), j)
    /\ addpc' = [addpc EXCEPT ![j] = "returned"]
    /\ UNCHANGED <<created_at, started_at, completed_at, error, result,
                   current_job, is_processing, worker_function, loopVars,
                   streamVars, now, cancel_ret>>
    /\ UNCHANGED saveVars

\* add_job, lines 243-246: with self.lock: jobs[job_id] = job; queue.put(job_id)
add_job_insert(j) ==
    /\ addpc[j] = "created"
    /\ status' = [status EXCEPT ![j] = PENDING]
    /\ queue' = Append(queue, j)
    /\ addpc' = [addpc EXCEPT ![j] = "returned"]
    /\ UNCHANGED <<created_at, started_at, completed_at, error, result,
                   current_job, is_processing, worker_function, loopVars,
                   streamVars, now, cancel_ret>>
    /\ UNCHANGED saveVars

\* cancel_job that pushes 'end' in its Pending branch too
cancel_job_signal(j) ==
    /\ IF status[j] = PENDING \/ status[j] = RUNNING
       THEN /\ input_queue' = [input_queue EXCEPT ![j] = @ + 1]
            /\ status' = [status EXCEPT ![j] = CANCELLED]
            /\ completed_at' = [completed_at EXCEPT ![j] = Set]
            /\ cancel_ret' = "True"
       ELSE /\ cancel_ret' = "False"
            /\ UNCHANGED <<status, completed_at, input_queue>>
    /\ UNCHANGED <<created_at, started_at, error, result, queue,
                   current_job, is_processing, worker_function, loopVars,
                   output_queue, routine, addpc, now>>
    /\ UNCHANGED saveVars

\* cancel_job whose Pending branch does not stamp completed_at (line 272)
cancel_job_nostamp(j) ==
    /\ IF status[j] = PENDING
       THEN /\ status' = [status EXCEPT ![j] = CANCELLED]
            /\ cancel_ret' = "True"
            /\ UNCHANGED <<completed_at, input_queue>>
       ELSE IF status[j] = RUNNING
       THEN /\ input_queue' = [input_queue EXCEPT ![j] = @ + 1]
            /\ status' = [status EXCEPT ![j] = CANCELLED]
            /\ completed_at' = [completed_at EXCEPT ![j] = Set]
            /\ cancel_ret' = "True"
       ELSE /\ cancel_ret' = "False"
            /\ UNCHANGED <<status, completed_at, input_queue>>
    /\ UNCHANGED <<created_at, started_at, error, result, queue,
                   current_job, is_processing, worker_function, loopVars,
                   output_queue, routine, addpc, now>>
    /\ UNCHANGED saveVars

\* cancel_job whose first test is `job` alone: a finished job is cancelled too
cancel_job_finished(j) ==
    /\ IF status[j] # ABSENT /\ status[j] # RUNNING
       THEN /\ status' = [status EXCEPT ![j] = CANCELLED]
            /\ completed_at' = [completed_at EXCEPT ![j] = Set]
            /\ cancel_ret' = "True"
            /\ UNCHANGED input_queue
       ELSE IF status[j] = RUNNING
       THEN /\ input_queue' = [input_queue EXCEPT ![j] = @ + 1]
            /\ status' = [status EXCEPT ![j] = CANCELLED]
            /\ completed_at' = [completed_at EXCEPT ![j] = Set]
            /\ cancel_ret' = "True"
       ELSE /\ cancel_ret' = "False"
            /\ UNCHANGED <<status, completed_at, input_queue>>
    /\ UNCHANGED <<created_at, started_at, error, result, queue,
                   current_job, is_processing, worker_function, loopVars,
                   output_queue, routine, addpc, now>>
    /\ UNCHANGED saveVars

\* cancel_job, lines 266-281: one critical section
cancel_job(j) ==
    /\ IF status[j] = PENDING
       THEN /\ status' = [status EXCEPT ![j] = CANCELLED]
            /\ completed_at' = [completed_at EXCEPT ![j] = Set]
            /\ cancel_ret' = "True"
            /\ UNCHANGED input_queue
       ELSE IF status[j] = RUNNING
       THEN /\ input_queue' = [input_queue EXCEPT ![j] = @ + 1]
            /\ status' = [status EXCEPT ![j] = CANCELLED]
            /\ completed_at' = [completed_at EXCEPT ![j] = Set]
            /\ cancel_ret' = "True"
       ELSE /\ cancel_ret' = "False"
            /\ UNCHANGED <<status, completed_at, input_queue>>
    /\ UNCHANGED <<created_at, started_at, error, result, queue,
                   current_job, is_processing, worker_function, loopVars,
                   output_queue, routine, addpc, now>>
    /\ UNCHANGED saveVars

\* update_job_progress: one critical section that writes job.progress_data,
\* a field no other operation reads and the model does not carry; no-op for
\* an unknown id
update_job_progress(j) ==
    /\ status[j] # ABSENT
    /\ UNCHANGED vars

\* get_queue_position, lines 297-301: position = 1; for j in jobs.values():
\* if j.status == PENDING and j.created_at < job.created_at: position += 1
RECURSIVE CountAhead(_, _, _)
CountAhead(j, k, position) ==
    IF k > MaxJobs THEN position
    ELSE CountAhead(j, k + 1,
                    IF status[k] = PENDING /\ created_at[k] < created_at[j]
                    THEN position + 1 ELSE position)

\* the value that stands for the None get_queue_position returns
NoPosition == 0 - 1

\* get_queue_position with <= in place of < at line 300
RECURSIVE CountAheadLe(_, _, _)
CountAheadLe(j, k, position) ==
    IF k > MaxJobs THEN position
    ELSE CountAheadLe(j, k + 1,
                      IF status[k] = PENDING /\ created_at[k] <= created_at[j]
                      THEN position + 1 ELSE position)

get_queue_position_le(j) ==
    IF status[j] = ABSENT THEN NoPosition
    ELSE IF status[j] = RUNNING THEN 0
    ELSE IF status[j] # PENDING THEN NoPosition
    ELSE CountAheadLe(j, 1, 1)

\* get_queue_position, lines 283-302
get_queue_position(j) ==
    IF status[j] = ABSENT THEN NoPosition
    ELSE IF status[j] = RUNNING THEN 0
    ELSE IF status[j] # PENDING THEN NoPosition
    ELSE CountAhead(j, 1, 1)

\* ------------------------------------------------- save_queue_to_json
\* add_job as it continues after its critical section: lines 243-246, then
\* the call of save_queue_to_json at line 250
add_job_insert_save(j) ==
    /\ addpc[j] = "created"
    /\ status' = [status EXCEPT ![j] = PENDING]
    /\ queue' = Append(queue, j)
    /\ jobs_keys' = Append(jobs_keys, j)
    /\ addpc' = [addpc EXCEPT ![j] = "save"]
    /\ UNCHANGED <<created_at, started_at, completed_at, error, result,
                   current_job, is_processing, worker_function, loopVars,
                   streamVars, now, cancel_ret,
                   job_ids, serialized_jobs, queue_json>>

\* lines 213-217: with self.lock: job_ids = list(self.jobs.keys());
\* serialized_jobs = {}
save_queue_to_json_ids(j) ==
    /\ addpc[j] = "save"
    /\ job_ids' = [job_ids EXCEPT ![j] = jobs_keys]
    /\ serialized_jobs' = [serialized_jobs EXCEPT ![j] = NoRecords]
    /\ addpc' = [addpc EXCEPT ![j] = "get_job"]
    /\ UNCHANGED <<jobVars, queue, current_job, is_processing, worker_function,
                   loopVars, streamVars, now, cancel_ret, jobs_keys, queue_json>>

\* lines 218-220 and 256-259: for job_id in job_ids: job = self.get_job(job_id)
\* returns the Job object (jobs are never removed); serialize_job starts with
\* an empty record
get_job(j) ==
    /\ addpc[j] = "get_job"
    /\ job_ids[j] # <<>>
    /\ serialized_jobs' = [serialized_jobs EXCEPT ![j][Head(job_ids[j])] =
                              [n \in 1..Len(Fields) |-> Unread]]
    /\ addpc' = [addpc EXCEPT ![j] = Fields[1]]
    /\ UNCHANGED <<jobVars, queue, current_job, is_processing, worker_function,
                   loopVars, streamVars, now, cancel_ret,
                   jobs_keys, job_ids, queue_json>>

\* the value of a field of the Job object with id i
FieldOf(i, n) ==
    IF n = 1 THEN status[i]
    ELSE IF n = 2 THEN started_at[i]
    ELSE IF n = 3 THEN completed_at[i]
    ELSE IF n = 4 THEN error[i]
    ELSE result[i]

\* serialize_job, lines 125-132, called without the lock (line 221): one
\* attribute of the Job object is read per step, in the order of the dict
\* display; after the last one the record is stored in serialized_jobs and
\* the for loop goes to the next id
serialize_job(j) ==
    /\ \E n \in 1..Len(Fields) :
          /\ addpc[j] = Fields[n]
          /\ serialized_jobs' =
                [serialized_jobs EXCEPT ![j][Head(job_ids[j])][n] =
                    FieldOf(Head(job_ids[j]), n)]
          /\ IF n < Len(Fields)
             THEN /\ addpc' = [addpc EXCEPT ![j] = Fields[n + 1]]
                  /\ UNCHANGED job_ids
             ELSE /\ addpc' = [addpc EXCEPT ![j] = "get_job"]
                  /\ job_ids' = [job_ids EXCEPT ![j] = Tail(@)]
    /\ UNCHANGED <<jobVars, queue, current_job, is_processing, worker_function,
                   loopVars, streamVars, now, cancel_ret, jobs_keys, queue_json>>

\* lines 224-229 and 254: the for loop is over; json.dump(serialized_jobs, f)
\* replaces the content of queue.json, and add_job returns.  The records
\* written are those of serialized_jobs at this step; of the file the model
\* keeps the keys.
save_queue_to_json_write(j) ==
    /\ addpc[j] = "get_job"
    /\ job_ids[j] = <<>>
    /\ queue_json' = {i \in JobIds : serialized_jobs[j][i] # Missing}
    /\ serialized_jobs' = [serialized_jobs EXCEPT ![j] = NoRecords]
    /\ addpc' = [addpc EXCEPT ![j] = "returned"]
    /\ UNCHANGED <<jobVars, queue, current_job, is_processing, worker_function,
                   loopVars, streamVars, now, cancel_ret, jobs_keys, job_ids>>

\* ----------------------------------------------------------- worker loop
\* worker_get on a LifoQueue (the queue class line 107 says was replaced)
worker_get_lifo ==
    /\ pc = "get"
    /\ queue # <<>>
    /\ job_id' = queue[Len(queue)]
    /\ queue' = SubSeq(queue, 1, Len(queue) - 1)
    /\ pc' = "examine"
    /\ UNCHANGED <<jobVars, current_job, is_processing, worker_function,
                   job_completed, streamVars, addpc, now, cancel_ret>>
    /\ UNCHANGED saveVars

\* line 317: job_id = self.queue.get(block=True, timeout=1.0); on Empty the
\* loop continues without any change of state
worker_get ==
    /\ pc = "get"
    /\ queue # <<>>
    /\ job_id' = Head(queue)
    /\ queue' = Tail(queue)
    /\ pc' = "examine"
    /\ UNCHANGED <<jobVars, current_job, is_processing, worker_function,
                   job_completed, streamVars, addpc, now, cancel_ret>>
    /\ UNCHANGED saveVars

\* worker_examine without the test of lines 328-331: a cancelled id is claimed
worker_examine_noskip ==
    /\ pc = "examine"
    /\ IF status[job_id] = ABSENT
       THEN /\ pc' = "get"
            /\ UNCHANGED <<status, started_at, queue, current_job, is_processing>>
       ELSE IF is_processing
       THEN /\ queue' = Append(queue, job_id)
            /\ pc' = "get"
            /\ UNCHANGED <<status, started_at, current_job, is_processing>>
       ELSE /\ status' = [status EXCEPT ![job_id] = RUNNING]
            /\ started_at' = [started_at EXCEPT ![job_id] = Set]
            /\ current_job' = job_id
            /\ is_processing' = TRUE
            /\ pc' = "start"
            /\ UNCHANGED queue
    /\ UNCHANGED <<created_at, completed_at, error, result,
                   worker_function, job_id, job_completed, streamVars, addpc,
                   now, cancel_ret>>
    /\ UNCHANGED saveVars

\* lines 322-345: with self.lock: skip / busy-requeue / claim
worker_examine ==
    /\ pc = "examine"
    /\ IF status[job_id] = ABSENT \/ status[job_id] = CANCELLED
       THEN /\ pc' = "get"
            /\ UNCHANGED <<status, started_at, queue, current_job, is_processing>>
       ELSE IF is_processing
       THEN /\ queue' = Append(queue, job_id)
            /\ pc' = "get"
            /\ UNCHANGED <<status, started_at, current_job, is_processing>>
       ELSE /\ status' = [status EXCEPT ![job_id] = RUNNING]
            /\ started_at' = [started_at EXCEPT ![job_id] = Set]
            /\ current_job' = job_id
            /\ is_processing' = TRUE
            /\ pc' = "start"
            /\ UNCHANGED queue
    /\ UNCHANGED <<created_at, completed_at, error, result,
                   worker_function, job_id, job_completed, streamVars, addpc,
                   now, cancel_ret>>
    /\ UNCHANGED saveVars

\* worker_start without the test of lines 350-351
worker_start_nocheck ==
    /\ pc = "start"
    /\ job_completed' = FALSE
    /\ \/ /\ pc' = "drain"
          /\ routine' = [routine EXCEPT ![job_id] = "running"]
          /\ output_queue' = <<>>
       \/ /\ pc' = "except"
          /\ UNCHANGED <<routine, output_queue>>
    /\ UNCHANGED <<jobVars, queue, current_job, is_processing, worker_function,
                   job_id, input_queue, addpc, now, cancel_ret>>
    /\ UNCHANGED saveVars

\* lines 347-367: job_completed = False; raise ValueError when no worker
\* function is set, else async_run(worker_function, **job.params,
\* job_stream=job.stream), which starts the routine or raises
worker_start ==
    /\ pc = "start"
    /\ job_completed' = FALSE
    /\ \/ /\ worker_function = None
          /\ pc' = "except"
          /\ UNCHANGED <<routine, output_queue>>
       \/ /\ worker_function # None
          /\ pc' = "drain"
          /\ routine' = [routine EXCEPT ![job_id] = "running"]
          /\ output_queue' = <<>>
       \/ /\ worker_function # None
          /\ pc' = "except"
          /\ UNCHANGED <<routine, output_queue>>
    /\ UNCHANGED <<jobVars, queue, current_job, is_processing, worker_function,
                   job_id, input_queue, addpc, now, cancel_ret>>
    /\ UNCHANGED saveVars

\* worker_drain without the cancel test of lines 371-375
worker_drain_nocancel ==
    /\ pc = "drain"
    /\ pc' = "next"
    /\ UNCHANGED <<jobVars, queue, current_job, is_processing, worker_function,
                   job_id, job_completed, streamVars, addpc, now, cancel_ret>>
    /\ UNCHANGED saveVars

\* worker_drain that breaks at once, whatever the status
worker_drain_nowait ==
    /\ pc = "drain"
    /\ job_completed' = TRUE
    /\ pc' = "finally"
    /\ output_queue' = <<>>
    /\ UNCHANGED <<jobVars, queue, current_job, is_processing, worker_function,
                   job_id, input_queue, routine, addpc, now, cancel_ret>>
    /\ UNCHANGED saveVars

\* lines 369-375: with self.lock: if job.status == CANCELLED: break.  After
\* the break the loop reads this stream no more: what is left in it is dropped
\* from output_queue.
worker_drain ==
    /\ pc = "drain"
    /\ IF status[job_id] = CANCELLED
       THEN /\ job_completed' = TRUE
            /\ pc' = "finally"
            /\ output_queue' = <<>>
       ELSE /\ pc' = "next"
            /\ UNCHANGED <<job_completed, output_queue>>
    /\ UNCHANGED <<jobVars, queue, current_job, is_processing, worker_function,
                   job_id, input_queue, routine, addpc, now, cancel_ret>>
    /\ UNCHANGED saveVars

\* worker_next that keeps the first 'file' payload (line 395 guarded by
\* `if job.result is None`)
worker_next_first ==
    /\ pc = "next"
    /\ IF output_queue = <<>>
       THEN /\ pc' = "drain"
            /\ UNCHANGED <<result, job_completed, output_queue>>
       ELSE LET ev == Head(output_queue) IN
            /\ output_queue' = Tail(output_queue)
            /\ IF ev[1] = "file"
               THEN /\ result' = IF result[job_id] = None
                                 THEN [result EXCEPT ![job_id] = ev[2]]
                                 ELSE result
                    /\ pc' = "drain"
                    /\ UNCHANGED job_completed
               ELSE IF ev[1] = "progress"
               THEN /\ pc' = "drain"
                    /\ UNCHANGED <<result, job_completed>>
               ELSE /\ job_completed' = TRUE
                    /\ pc' = "finally"
                    /\ UNCHANGED result
    /\ UNCHANGED <<status, created_at, started_at, completed_at, error, queue,
                   current_job, is_processing, worker_function, job_id,
                   input_queue, routine, addpc, now, cancel_ret>>
    /\ UNCHANGED saveVars

\* lines 385-419: flag, data = job.stream.output_queue.next() and dispatch;
\* an empty queue is retried from the top of the while loop; a 'progress'
\* event is written to job.progress_data only
worker_next ==
    /\ pc = "next"
    /\ IF output_queue = <<>>
       THEN /\ pc' = "drain"
            /\ UNCHANGED <<result, job_completed, output_queue>>
       ELSE LET ev == Head(output_queue) IN
            /\ output_queue' = Tail(output_queue)
            /\ IF ev[1] = "file"
               THEN /\ result' = [result EXCEPT ![job_id] = ev[2]]
                    /\ pc' = "drain"
                    /\ UNCHANGED job_completed
               ELSE IF ev[1] = "progress"
               THEN /\ pc' = "drain"
                    /\ UNCHANGED <<result, job_completed>>
               ELSE /\ job_completed' = TRUE
                    /\ pc' = "finally"
                    /\ UNCHANGED result
    /\ UNCHANGED <<status, created_at, started_at, completed_at, error, queue,
                   current_job, is_processing, worker_function, job_id,
                   input_queue, routine, addpc, now, cancel_ret>>
    /\ UNCHANGED saveVars

\* lines 420-428: inner except
worker_except ==
    /\ pc = "except"
    /\ status' = [status EXCEPT ![job_id] = FAILED]
    /\ error' = [error EXCEPT ![job_id] = ErrStart]
    /\ completed_at' = [completed_at EXCEPT ![job_id] = Set]
    /\ job_completed' = TRUE
    /\ pc' = "finally"
    /\ UNCHANGED <<created_at, started_at, result, queue,
                   current_job, is_processing, worker_function, job_id,
                   streamVars, addpc, now, cancel_ret>>
    /\ UNCHANGED saveVars

\* a finally block without its status part
FinalizeStatus_skip == UNCHANGED <<status, error, completed_at>>

\* lines 431-441: the status part of the finally block
FinalizeStatus ==
    IF status[job_id] = RUNNING
    THEN /\ status' = [status EXCEPT ![job_id] =
                          IF job_completed THEN COMPLETED ELSE FAILED]
         /\ error' = IF job_completed THEN error
                     ELSE [error EXCEPT ![job_id] = ErrInterrupted]
         /\ completed_at' = [completed_at EXCEPT ![job_id] = Set]
    ELSE UNCHANGED <<status, error, completed_at>>

\* a finally block that leaves is_processing set (line 445 missing)
worker_finally_busy ==
    /\ pc \in {"finally", "finally_raise"}
    /\ FinalizeStatus
    /\ current_job' = NoJob
    /\ pc' = IF pc = "finally" THEN "get" ELSE "outer"
    /\ UNCHANGED <<created_at, started_at, result, queue, is_processing,
                   worker_function, job_id, job_completed, streamVars, addpc,
                   now, cancel_ret>>
    /\ UNCHANGED saveVars

\* lines 430-446: finally; when it runs while an exception propagates out of
\* the inner except handler, the exception continues to the outer handler
worker_finally ==
    /\ pc \in {"finally", "finally_raise"}
    /\ FinalizeStatus
    /\ is_processing' = FALSE
    /\ current_job' = NoJob
    /\ pc' = IF pc = "finally" THEN "get" ELSE "outer"
    /\ UNCHANGED <<created_at, started_at, result, queue,
                   worker_function, job_id, job_completed, streamVars, addpc,
                   now, cancel_ret>>
    /\ UNCHANGED saveVars

\* ------------------------------------------------------- loop failures
\* An exception that escapes the inner try: the logging calls of the loop
\* (print, traceback.print_exc) raise.

\* line 341: print raises inside the claim block, before any assignment
worker_examine_raise ==
    /\ pc = "examine"
    /\ status[job_id] \notin {ABSENT, CANCELLED}
    /\ ~is_processing
    /\ pc' = "outer"
    /\ UNCHANGED <<jobVars, queue, current_job, is_processing, worker_function,
                   job_id, job_completed, streamVars, addpc, now, cancel_ret>>
    /\ UNCHANGED saveVars

\* lines 421-423: traceback.print_exc() / print raise in the inner except
\* handler, before its critical section
worker_except_raise ==
    /\ pc = "except"
    /\ pc' = "finally_raise"
    /\ UNCHANGED <<jobVars, queue, current_job, is_processing, worker_function,
                   job_id, job_completed, streamVars, addpc, now, cancel_ret>>
    /\ UNCHANGED saveVars

\* lines 431-443: print raises in the finally block, after the status part
\* and before is_processing and current_job are cleared
worker_finally_raise ==
    /\ pc \in {"finally", "finally_raise"}
    /\ FinalizeStatus
    /\ pc' = "outer"
    /\ UNCHANGED <<created_at, started_at, result, queue,
                   current_job, is_processing, worker_function, job_id,
                   job_completed, streamVars, addpc, now, cancel_ret>>
    /\ UNCHANGED saveVars

\* an outer except handler without line 451 (self.is_processing = False)
worker_outer_busy ==
    /\ pc = "outer"
    /\ IF current_job # NoJob
       THEN /\ status' = [status EXCEPT ![current_job] = FAILED]
            /\ error' = [error EXCEPT ![current_job] = ErrLoop]
            /\ completed_at' = [completed_at EXCEPT ![current_job] = Set]
            /\ current_job' = NoJob
       ELSE UNCHANGED <<status, error, completed_at, current_job>>
    /\ pc' = "get"
    /\ UNCHANGED <<created_at, started_at, result, queue, is_processing,
                   worker_function, job_id, job_completed, streamVars, addpc,
                   now, cancel_ret>>
    /\ UNCHANGED saveVars

\* lines 448-462: outer except
worker_outer ==
    /\ pc = "outer"
    /\ is_processing' = FALSE
    /\ IF current_job # NoJob
       THEN /\ status' = [status EXCEPT ![current_job] = FAILED]
            /\ error' = [error EXCEPT ![current_job] = ErrLoop]
            /\ completed_at' = [completed_at EXCEPT ![current_job] = Set]
            /\ current_job' = NoJob
       ELSE UNCHANGED <<status, error, completed_at, current_job>>
    /\ pc' = "get"
    /\ UNCHANGED <<created_at, started_at, result, queue,
                   worker_function, job_id, job_completed, streamVars, addpc,
                   now, cancel_ret>>
    /\ UNCHANGED saveVars

\* --------------------------------------------------------- worker routine
\* The routine runs in its own thread and talks to the loop only through
\* job.stream: it pushes ('progress', ..) and ('file', ..) events and a final
\* ('end', None).  The loop reads one stream at a time, the one of its local
\* job, from async_run until it breaks out of the while loop; what a routine
\* pushes into a stream the loop has left is never read and is not recorded.

Drained(j) == job_id = j /\ pc \in {"drain", "next"}

Push(j, e) == IF Drained(j) THEN Append(output_queue, e) ELSE output_queue

routine_emit(j) ==
    /\ routine[j] = "running"
    /\ Drained(j)
    /\ Len(output_queue) < MaxOut
    /\ \E e \in Events \ {<<"end">>} : output_queue' = Push(j, e)
    /\ UNCHANGED <<jobVars, queue, current_job, is_processing, worker_function,
                   loopVars, input_queue, routine, addpc, now, cancel_ret>>
    /\ UNCHANGED saveVars

\* the routine finishes: its last act is to push ('end', None)
routine_end(j) ==
    /\ routine[j] = "running"
    /\ output_queue' = Push(j, <<"end">>)
    /\ routine' = [routine EXCEPT ![j] = "done"]
    /\ UNCHANGED <<jobVars, queue, current_job, is_processing, worker_function,
                   loopVars, input_queue, addpc, now, cancel_ret>>
    /\ UNCHANGED saveVars

\* the routine raises: its thread ends and nothing more is pushed
routine_raise(j) ==
    /\ routine[j] = "running"
    /\ routine' = [routine EXCEPT ![j] = "raised"]
    /\ UNCHANGED <<jobVars, queue, current_job, is_processing, worker_function,
                   loopVars, input_queue, output_queue, addpc, now, cancel_ret>>
    /\ UNCHANGED saveVars

\* the routine catches its own error, reports it and pushes ('end', None)
routine_report(j) ==
    /\ routine[j] = "running"
    /\ output_queue' = Push(j, <<"end">>)
    /\ routine' = [routine EXCEPT ![j] = "reported"]
    /\ UNCHANGED <<jobVars, queue, current_job, is_processing, worker_function,
                   loopVars, input_queue, addpc, now, cancel_ret>>
    /\ UNCHANGED saveVars

\* -------------------------------------------------------- specifications
Next ==
    \/ set_worker_function
    \/ \E j \in JobIds : add_job_create(j)
    \/ \E j \in JobIds : add_job_insert(j)
    \/ \E j \in JobIds : cancel_job(j)
    \/ \E j \in JobIds : update_job_progress(j)
    \/ worker_get
    \/ worker_examine
    \/ worker_start
    \/ worker_drain
    \/ worker_next
    \/ worker_except
    \/ worker_finally
    \/ \E j \in JobIds : routine_emit(j)
    \/ \E j \in JobIds : routine_end(j)

Spec == Init /\ [][Next]_vars

\* the same program with a routine that may fail
NextRoutineFail ==
    \/ Next
    \/ \E j \in JobIds : routine_raise(j)
    \/ \E j \in JobIds : routine_report(j)

SpecRoutineFail == Init /\ [][NextRoutineFail]_vars

\* the same program with loop failures
NextFault ==
    \/ Next
    \/ worker_examine_raise
    \/ worker_except_raise
    \/ worker_finally_raise
    \/ worker_outer

SpecFault == Init /\ [][NextFault]_vars

\* the worker thread is a daemon thread that runs `while True` (lines 312-
\* 315): whenever it can take its next step it eventually does
FairLoop ==
    /\ WF_vars(worker_get)
    /\ WF_vars(worker_examine)
    /\ WF_vars(worker_start)
    /\ WF_vars(worker_drain)
    /\ WF_vars(worker_next)
    /\ WF_vars(worker_except)
    /\ WF_vars(worker_finally)

\* the program with a fairly scheduled worker loop; the routines are free
\* never to emit anything
SpecFairLoop == Init /\ [][Next]_vars /\ FairLoop

\* every invoked routine eventually pushes ('end', None)
FairRoutine == \A j \in JobIds : WF_vars(routine_end(j))

\* the program with a fairly scheduled worker loop and routines that end
SpecFair == Init /\ [][Next]_vars /\ FairLoop /\ FairRoutine

\* the program with the snapshot that add_job writes after its critical
\* section, for callers that call add_job one after the other: a call starts
\* when no other call is under way
NextSave ==
    \/ set_worker_function
    \/ \E j \in JobIds :
          /\ \A i \in JobIds : addpc[i] \in {"idle", "returned"}
          /\ add_job_create(j)
    \/ \E j \in JobIds : add_job_insert_save(j)
    \/ \E j \in JobIds : save_queue_to_json_ids(j)
    \/ \E j \in JobIds : get_job(j)
    \/ \E j \in JobIds : serialize_job(j)
    \/ \E j \in JobIds : save_queue_to_json_write(j)
    \/ \E j \in JobIds : cancel_job(j)
    \/ \E j \in JobIds : update_job_progress(j)
    \/ worker_get
    \/ worker_examine
    \/ worker_start
    \/ worker_drain
    \/ worker_next
    \/ worker_except
    \/ worker_finally
    \/ \E j \in JobIds : routine_emit(j)
    \/ \E j \in JobIds : routine_end(j)

SpecSave == Init /\ [][NextSave]_vars

\* the callers of the queue with concurrent add_job calls, each with its
\* snapshot, in the runs where the worker thread takes no step meanwhile
NextSaveCallers ==
    \/ set_worker_function
    \/ \E j \in JobIds : add_job_create(j)
    \/ \E j \in JobIds : add_job_insert_save(j)
    \/ \E j \in JobIds : save_queue_to_json_ids(j)
    \/ \E j \in JobIds : get_job(j)
    \/ \E j \in JobIds : serialize_job(j)
    \/ \E j \in JobIds : save_queue_to_json_write(j)
    \/ \E j \in JobIds : cancel_job(j)
    \/ \E j \in JobIds : update_job_progress(j)

SpecSaveCallers == Init /\ [][NextSaveCallers]_vars

TypeOK ==
    /\ status \in [JobIds -> JobStatus \cup {ABSENT}]
    /\ created_at \in [JobIds -> 0..(MaxJobs + 1)]
    /\ started_at \in [JobIds -> {None, Set}]
    /\ completed_at \in [JobIds -> {None, Set}]
    /\ error \in [JobIds -> {None, ErrStart, ErrInterrupted, ErrLoop}]
    /\ result \in [JobIds -> {None} \cup Files]
    /\ current_job \in JobIds \cup {NoJob}
    /\ job_id \in JobIds \cup {NoJob}
    /\ is_processing \in BOOLEAN
    /\ job_completed \in BOOLEAN
    /\ Len(output_queue) <= MaxOut + 1
    /\ Len(jobs_keys) <= MaxJobs
    /\ \A j \in JobIds : Len(job_ids[j]) <= MaxJobs
    /\ queue_json \subseteq JobIds

\* ================================================================ claims

\* the edges of the job state machine, with the creation of the job
Edges == {<<ABSENT, PENDING>>, <<PENDING, RUNNING>>, <<PENDING, CANCELLED>>,
          <<RUNNING, CANCELLED>>, <<RUNNING, COMPLETED>>, <<RUNNING, FAILED>>}

\* C1: every change of a job's status follows one of the edges
\* Pending->Running, Pending->Cancelled, Running->Cancelled,
\* Running->Completed, Running->Failed; a Completed, Failed or Cancelled job
\* never changes status again.
C1_StatusEdges ==
    [][\A j \in JobIds :
          status'[j] # status[j] => <<status[j], status'[j]>> \in Edges]_vars

\* C2: at most one job has status Running.
C2_OneRunning == Cardinality({j \in JobIds : status[j] = RUNNING}) <= 1

\* C2 witness: a job is Running after an earlier job was claimed and cancelled,
\* while its routine still runs.
C2_Witness ==
    \E j, k \in JobIds :
        /\ status[j] = RUNNING
        /\ status[k] = CANCELLED /\ started_at[k] = Set

\* C3 (as claimed): the loop never invokes the routine of a job while the
\* routine it invoked for another job is still executing.
C3_OneRoutine ==
    [][\A j \in JobIds :
          (routine[j] = "idle" /\ routine'[j] = "running")
          => \A k \in JobIds \ {j} : routine[k] # "running"]_vars

\* C3 (amended): a routine still executing when the loop invokes the routine
\* of another job belongs to a job that cancel_job cancelled while Running
\* (its stream holds the end signal); among the jobs not so cancelled at most
\* one routine executes.
C3_OneRoutineUnlessCancelled ==
    /\ Cardinality({j \in JobIds : routine[j] = "running"
                                   /\ input_queue[j] = 0}) <= 1
    /\ \A j \in JobIds :
          (routine[j] = "running" /\ input_queue[j] = 0)
          => (job_id = j /\ pc \in {"drain", "next"})

\* C3 witness: two routines execute at once, the older one of a cancelled job.
C3_Witness ==
    \E j, k \in JobIds :
        /\ j # k
        /\ routine[j] = "running" /\ input_queue[j] = 1
        /\ routine[k] = "running" /\ status[k] = RUNNING

\* C4: a job cancelled while Running (cancel_job pushed the end signal into
\* its stream) is Cancelled with completed_at set, and stays so.
C4_CancelledStays ==
    \A j \in JobIds :
        input_queue[j] > 0 => status[j] = CANCELLED /\ completed_at[j] = Set

\* C5: cancel_job on a Pending job returns true and leaves it Cancelled with
\* completed_at set; a job cancelled while Pending is never set Running
\* afterwards: it stays Cancelled, its started_at stays unset and its routine
\* is never invoked.
C5_CancelPending ==
    [][\A j \in JobIds :
          /\ (status[j] = PENDING /\ cancel_job(j))
             => /\ cancel_ret' = "True"
                /\ status'[j] = CANCELLED
                /\ completed_at'[j] = Set
          /\ (status[j] = CANCELLED /\ started_at[j] = None)
             => /\ status'[j] = CANCELLED
                /\ started_at'[j] = None
                /\ completed_at'[j] = Set
                /\ routine'[j] = "idle"]_vars

\* C5 witness: the loop has popped the id of a job cancelled while Pending
\* and has gone back to the dequeue step without claiming it.
C5_Witness ==
    \E j \in JobIds :
        /\ status[j] = CANCELLED /\ started_at[j] = None
        /\ cancel_ret = "True"
        /\ job_id = j /\ pc = "get"

\* C6: cancel_job on a Completed, Failed or Cancelled job, or on an id that
\* is not in the job table, returns false and changes nothing else.
C6_CancelNoop ==
    [][\A j \in JobIds :
          (status[j] \in Terminal \cup {ABSENT} /\ cancel_job(j))
          => /\ cancel_ret' = "False"
             /\ UNCHANGED <<jobVars, queue, current_job, is_processing,
                            worker_function, loopVars, streamVars, addpc, now>>]_vars

\* C6 witness: a cancel_job call has returned false and a finished job exists.
C6_Witness ==
    /\ cancel_ret = "False"
    /\ \E j \in JobIds : status[j] = COMPLETED
    /\ \E j \in JobIds : status[j] = ABSENT

\* the position as the claim states it
PositionClaim(j) ==
    IF status[j] = RUNNING THEN 0
    ELSE IF status[j] \in Terminal \cup {ABSENT} THEN NoPosition
    ELSE 1 + Cardinality({k \in JobIds \ {j} :
                             status[k] = PENDING /\ created_at[k] < created_at[j]})

\* C7: get_queue_position is 0 for a Running job, none for an absent or
\* finished job, and for a Pending job 1 plus the number of other Pending jobs
\* with a strictly earlier created_at.
C7_Position == \A j \in JobIds : get_queue_position(j) = PositionClaim(j)

\* C7 witness: a Pending job at position 2 behind another Pending job.
C7_Witness ==
    \E j, k \in JobIds :
        /\ status[j] = PENDING /\ status[k] = PENDING
        /\ get_queue_position(k) = 1 /\ get_queue_position(j) = 2

\* the ids in the order they were put into the admission queue, as far as the
\* loop has not yet discarded or claimed them
Arrival == IF pc = "examine" THEN <<job_id>> \o queue ELSE queue

ArrivedBefore(a, b) ==
    \E m, n \in 1..Len(Arrival) : m < n /\ Arrival[m] = a /\ Arrival[n] = b

\* C8: of two Pending jobs the one enqueued first has the smaller position,
\* also when their created_at are equal.
C8_PositionFollowsArrival ==
    \A a, b \in JobIds :
        (status[a] = PENDING /\ status[b] = PENDING /\ ArrivedBefore(a, b))
        => get_queue_position(a) < get_queue_position(b)

C10_RoutineErrorNotCompleted ==
    \A j \in JobIds :
        routine[j] \in {"raised", "reported"} => status[j] # COMPLETED

\* C11: with a fairly scheduled worker loop and routines that eventually emit
\* end, every submitted job eventually is Completed, Failed or Cancelled, also
\* a job queued behind one that ended Failed or Cancelled.
C11_EventuallyTerminal ==
    \A j \in JobIds : (status[j] # ABSENT) ~> (status[j] \in Terminal)

\* C11 witness: a job has finished after the job claimed before it ended
\* Failed or Cancelled.
C11_Witness ==
    \E j, k \in JobIds :
        /\ j # k
        /\ status[j] \in {FAILED, CANCELLED} /\ started_at[j] = Set
        /\ job_id = k /\ pc = "get"
        /\ status[k] = COMPLETED

\* the loop drains the stream of Running job j and no end event is in it
DrainingNoEnd(j) ==
    /\ status[j] = RUNNING
    /\ Drained(j)
    /\ \A n \in 1..Len(output_queue) : output_queue[n] # <<"end">>

\* the first Pending id of the admission queue is k
NextPending(k) ==
    \E n \in 1..Len(queue) :
        /\ queue[n] = k /\ status[k] = PENDING
        /\ \A m \in 1..(n - 1) : status[queue[m]] # PENDING

\* C12: while the routine of the Running job emits no end event, a step
\* other than a cancel_job of it leaves the job Running, current and drained,
\* and claims no other job; once cancel_job has cancelled it, a fairly
\* scheduled loop eventually clears is_processing and current_job and the
\* first Pending id of the queue is claimed (or cancelled by a caller), with
\* no assumption on the routine.
C12_CancelReleases ==
    /\ [][\A j \in JobIds :
            (DrainingNoEnd(j) /\ status'[j] # CANCELLED
               /\ \A n \in 1..Len(output_queue') : output_queue'[n] # <<"end">>)
            => /\ DrainingNoEnd(j)'
               /\ is_processing' /\ current_job' = j
               /\ started_at' = started_at]_vars
    /\ \A j \in JobIds :
          (input_queue[j] > 0 /\ current_job = j)
          ~> (~is_processing /\ current_job = NoJob /\ pc = "get")
    /\ \A j, k \in JobIds :
          (input_queue[j] > 0 /\ current_job = j /\ NextPending(k))
          ~> (started_at[k] = Set \/ status[k] = CANCELLED)

\* C12 witness: a job cancelled while Running has a routine that has emitted
\* no end, the loop has left it and has claimed the next job.
C12_Witness ==
    \E j, k \in JobIds :
        /\ input_queue[j] > 0 /\ routine[j] = "running"
        /\ current_job = k /\ status[k] = RUNNING

\* the loop takes the event at the head of the stream of job j
Consumes(j) ==
    /\ pc = "next" /\ job_id = j
    /\ output_queue # <<>>
    /\ output_queue' = Tail(output_queue)

\* C13: a job is at position 1 while it is the only Pending job and at
\* position 0 while Running; it becomes Running from Pending only and
\* Completed from Running only; a job still Running when the loop has read
\* its end event becomes Completed; its result is written by the loop reading
\* a result event of its stream and by nothing else, each time with the
\* payload of that event, so that the result of a Completed job is the
\* payload of the last result event read, or unset if there was none.
C13_CompletedResult ==
  /\ [](\A j \in JobIds :
          /\ (status[j] = PENDING
                 /\ \A k \in JobIds \ {j} : status[k] # PENDING)
             => get_queue_position(j) = 1
          /\ status[j] = RUNNING => get_queue_position(j) = 0)
  /\ [][\A j \in JobIds :
          /\ (status'[j] = RUNNING /\ status[j] # RUNNING)
             => status[j] = PENDING
          /\ (status'[j] = COMPLETED /\ status[j] # COMPLETED)
             => status[j] = RUNNING /\ started_at[j] = Set
          /\ (pc = "finally" /\ job_id = j /\ status[j] = RUNNING
                 /\ pc' # "finally" /\ status'[j] # CANCELLED)
             => status'[j] = COMPLETED
          /\ (Consumes(j) /\ Head(output_queue)[1] = "file")
             => result'[j] = Head(output_queue)[2]
          /\ result'[j] # result[j]
             => Consumes(j) /\ Head(output_queue)[1] = "file"]_vars

\* C13 witness: a job nobody cancelled is Completed with the payload of the
\* second result event its routine can emit.
C13_Witness ==
    \E j \in JobIds :
        /\ cancel_ret = None
        /\ status[j] = COMPLETED /\ result[j] = "out2"
        /\ started_at[j] = Set /\ completed_at[j] = Set

\* C14: started_at is written by the Pending->Running step and by no other
\* step, so it is set exactly for the jobs that made it; completed_at is set
\* exactly while the status is Completed, Failed or Cancelled; error is set
\* only while the status is Failed.
C14_Stamps ==
  /\ [](\A j \in JobIds :
          /\ status[j] \in {ABSENT, PENDING} => started_at[j] = None
          /\ status[j] \in {RUNNING, COMPLETED, FAILED} => started_at[j] = Set
          /\ completed_at[j] = Set <=> status[j] \in Terminal
          /\ error[j] # None => status[j] = FAILED)
  /\ [][\A j \in JobIds :
          started_at'[j] # started_at[j]
          <=> (status[j] = PENDING /\ status'[j] = RUNNING)]_vars

\* C14 witness: one job was cancelled while Pending, another was claimed and
\* has Failed.
C14_Witness ==
    \E j, k \in JobIds :
        /\ status[j] = CANCELLED /\ started_at[j] = None
        /\ completed_at[j] = Set /\ error[j] = None
        /\ status[k] = FAILED /\ started_at[k] = Set
        /\ completed_at[k] = Set /\ error[k] # None

\* C15: the loop sets Running only a job that was never Running before
\* (started_at unset, routine not invoked) and started_at is never unset
\* again; a routine is invoked only for a job whose routine was never invoked
\* and is never back to not-invoked; no id is twice among the ids waiting to
\* be examined, and none of them was claimed before.
C15_ClaimedOnce ==
  /\ [](\A m, n \in 1..Len(Arrival) :
          /\ m # n => Arrival[m] # Arrival[n]
          /\ started_at[Arrival[m]] = None /\ routine[Arrival[m]] = "idle")
  /\ [][\A j \in JobIds :
          /\ (status'[j] = RUNNING /\ status[j] # RUNNING)
             => /\ started_at[j] = None /\ routine[j] = "idle"
                /\ started_at'[j] = Set
                /\ pc = "examine" /\ job_id = j
          /\ started_at[j] = Set => started_at'[j] = Set
          /\ routine'[j] # routine[j]
             => \/ routine[j] = "idle" /\ routine'[j] = "running"
                \/ routine[j] = "running" /\ routine'[j] = "done"]_vars

\* C15 witness: every job was submitted, claimed and run to its end, and the
\* queue is empty.
C15_Witness ==
    /\ queue = <<>> /\ pc = "get"
    /\ \A j \in JobIds :
          status[j] = COMPLETED /\ started_at[j] = Set /\ routine[j] = "done"

\* id a is waiting to be examined by the loop
Waiting(a) == \E n \in 1..Len(Arrival) : Arrival[n] = a

\* C16: the line of waiting ids changes only by an id not in it being
\* appended at its end, or by its first id leaving when the loop sets it
\* Running or discards it as Cancelled; a Pending job is always in the line,
\* and the loop sets a job Running only when it is first in the line: never
\* while an id appended before it still waits.
C16_ArrivalOrder ==
  /\ [](\A a \in JobIds : status[a] = PENDING => Waiting(a))
  /\ [][/\ \/ Arrival' = Arrival
            \/ \E b \in JobIds :
                  /\ ~Waiting(b)
                  /\ Arrival' = Append(Arrival, b)
            \/ /\ Arrival # <<>>
               /\ Arrival' = Tail(Arrival)
               /\ \/ status'[Arrival[1]] = RUNNING
                  \/ status[Arrival[1]] = CANCELLED
        /\ \A b \in JobIds :
              (status'[b] = RUNNING /\ status[b] # RUNNING)
              => Arrival # <<>> /\ Arrival[1] = b]_vars

\* C16 witness: the loop examines a job cancelled while Pending, which it
\* will discard, while a Pending job appended after it waits.
C16_Witness ==
    \E a, b \in JobIds :
        /\ ArrivedBefore(a, b)
        /\ pc = "examine" /\ job_id = a
        /\ status[a] = CANCELLED /\ status[b] = PENDING

\* C17: the input side of a job's stream holds at most one end signal, and
\* none unless the job was Running; a signal is pushed only by a cancel_job
\* call that finds its target Running and returns true, one signal into the
\* stream of that job and nothing into any other stream; every cancel of a
\* Running job pushes it.
C17_OneEndSignal ==
  /\ [](\A j \in JobIds :
          /\ input_queue[j] <= 1
          /\ input_queue[j] > 0 => started_at[j] = Set)
  /\ [][\A j \in JobIds :
          /\ input_queue'[j] # input_queue[j]
             => /\ status[j] = RUNNING /\ status'[j] = CANCELLED
                /\ cancel_ret' = "True"
                /\ input_queue'[j] = input_queue[j] + 1
                /\ \A k \in JobIds \ {j} : input_queue'[k] = input_queue[k]
          /\ (status[j] = RUNNING /\ status'[j] = CANCELLED)
             => input_queue'[j] = input_queue[j] + 1]_vars

\* C17 witness: one job was cancelled while Pending and has no signal,
\* another was cancelled while Running and has one.
C17_Witness ==
    \E j, k \in JobIds :
        /\ status[j] = CANCELLED /\ started_at[j] = None /\ input_queue[j] = 0
        /\ started_at[k] = Set /\ input_queue[k] = 1

\* C18: while the loop is at its dequeue step or examines a popped id,
\* is_processing is false and current_job is none; is_processing is true
\* exactly while current_job is set; the busy-requeue branch is never taken:
\* an id the loop has popped is never put back into the queue.
C18_IdleAtDequeue ==
  /\ [](/\ pc \in {"get", "examine"}
            => ~is_processing /\ current_job = NoJob
        /\ is_processing <=> current_job # NoJob)
  /\ [][/\ pc = "examine" => queue' = queue \/ Len(queue') > Len(queue)
        /\ \A n \in 1..Len(queue') : started_at[queue'[n]] = None
        /\ (pc = "examine" /\ pc' = "get")
           => status[job_id] = CANCELLED /\ queue' = queue]_vars

\* C18 witness: the loop is back at its dequeue step after a job it had
\* claimed was failed by the outer handler, and another id waits.
C18_Witness ==
    \E j \in JobIds :
        /\ status[j] = FAILED /\ error[j] = ErrLoop
        /\ pc = "get" /\ queue # <<>>
        /\ ~is_processing /\ current_job = NoJob

\* a record that is a view of its job at one instant satisfies what every
\* state of a job satisfies (C14): started_at unset if Pending, set if
\* Running, Completed or Failed; completed_at set exactly if Completed,
\* Failed or Cancelled; error set only if Failed
PointInTime(rec) ==
    /\ rec[1] = PENDING => rec[2] = None
    /\ rec[1] \in {RUNNING, COMPLETED, FAILED} => rec[2] = Set
    /\ rec[3] = Set <=> rec[1] \in Terminal
    /\ rec[4] # None => rec[1] = FAILED

\* C19: every record that save_queue_to_json writes to queue.json is a view
\* of its job at one instant: for example none has status pending or running
\* together with a set completed_at.
C19_SnapshotPointInTime ==
    [][\A j \in JobIds :
          save_queue_to_json_write(j)
          => \A i \in JobIds :
                serialized_jobs[j][i] # Missing
                => PointInTime(serialized_jobs[j][i])]_vars

\* C20: of two Pending jobs the loop never sets Running the one with the
\* larger position while the other is still Pending.
C20_PositionAgreesWithClaims ==
    [][\A a, b \in JobIds :
          (/\ status[a] = PENDING /\ status[b] = PENDING
           /\ get_queue_position(a) < get_queue_position(b))
          => ~(status'[b] = RUNNING /\ status'[a] = PENDING)]_vars

\* C21: once every add_job call has returned, queue.json has a record for
\* every job of the job table.
C21_SnapshotComplete ==
    (\A j \in JobIds : addpc[j] \in {"idle", "returned"})
    => \A i \in JobIds : status[i] # ABSENT => i \in queue_json

====
